---- MODULE Spec2Model ----
(***************************************************************************)
(* Model of openscap_daemon/oscap_helpers.py: the evaluation dispatcher    *)
(* (target resolution, process launch, run directory, exit code), the      *)
(* report/guide/fix generators, the profile scraper and the small pure     *)
(* helpers (EvaluationMode, get_status_from_exit_code).                    *)
(*                                                                         *)
(* A Python string is a sequence of one-character strings, so that         *)
(* startswith, slicing, split(":"), int() and "%i" are computed the way    *)
(* the code computes them.  Mode tokens, which the code only compares for  *)
(* equality, are TLA+ strings; a text the code only passes along is a      *)
(* sequence of fragments.                                                  *)
(***************************************************************************)
EXTENDS Integers, Sequences, FiniteSets, TLC

VARIABLES
    arg,        \* the input of the pure function under check
    res,        \* its current result
    fn,         \* the functions applied so far, in order
    pc,         \* pc[c]: where caller c is in the operation it called
    inp,        \* inp[c]: the arguments of the call
    wd,         \* wd[c]: working_directory of evaluate, NoDir before mkdtemp
    args,       \* args[c]: the argument vector built by the call
    exit_code,  \* exit_code[c]: the local variable of evaluate
    proc,       \* proc[c]: what became of the process the call launched
    out,        \* out[c]: the value returned or the exception raised
    sev,        \* sev[c]: the severity evaluate logged
    fs          \* fs[d]: the directory named d under work_in_progress_dir

pvars == <<arg, res, fn>>
svars == <<pc, inp, wd, args, exit_code, proc, out, sev, fs>>
vars == <<arg, res, fn, pc, inp, wd, args, exit_code, proc, out, sev, fs>>

----------------------------------------------------------------------------
(* Bounds *)

\* Longest remainder (the part after the scheme prefix) of a generated target.
MaxLen == 3

\* Mode values are drawn from -MaxModeValue..MaxModeValue.
MaxModeValue == 8

\* Longest chain of to_string / from_string applications.
MaxSteps == 3

\* Exit codes are drawn from -MaxExitCode..MaxExitCode.
MaxExitCode == 77

\* Most component-ref elements under the checklists element of a document.
MaxRefs == 2

\* Most component elements of a document.
MaxComps == 2

\* Directory names mkdtemp can draw.
MaxDirs == 3

\* The spawned process returns a code in -1..MaxReturnCode (-1: killed by a
\* signal).
MaxReturnCode == 3

----------------------------------------------------------------------------
(* Python string helpers *)

startswith(s, p) == Len(s) >= Len(p) /\ SubSeq(s, 1, Len(p)) = p

\* s[n:]
slice_from(s, n) == SubSeq(s, n + 1, Len(s))

\* c in s
contains(s, c) == \E i \in 1..Len(s) : s[i] = c

\* index of the first c in s, Len(s)+1 when there is none
RECURSIVE find_first(_, _, _)
find_first(s, c, i) ==
    IF i > Len(s) THEN i
    ELSE IF s[i] = c THEN i
    ELSE find_first(s, c, i + 1)

\* s.split(c): every occurrence of c separates two parts
RECURSIVE split(_, _)
split(s, c) ==
    LET i == find_first(s, c, 1)
    IN  IF i > Len(s) THEN <<s>>
        ELSE <<SubSeq(s, 1, i - 1)>> \o split(SubSeq(s, i + 1, Len(s)), c)

Digits == <<"0", "1", "2", "3", "4", "5", "6", "7", "8", "9">>

is_digit(ch) == \E d \in 1..10 : Digits[d] = ch

digit_value(ch) == (CHOOSE d \in 1..10 : Digits[d] = ch) - 1

RECURSIVE digits_value(_, _)
digits_value(s, acc) ==
    IF s = <<>> THEN acc
    ELSE digits_value(Tail(s), acc * 10 + digit_value(Head(s)))

all_digits(s) == s # <<>> /\ \A i \in 1..Len(s) : is_digit(s[i])

\* int(s) accepts an optional sign followed by decimal digits
int_ok(s) ==
    \/ all_digits(s)
    \/ Len(s) >= 2 /\ Head(s) \in {"-", "+"} /\ all_digits(Tail(s))

\* int(s), defined when int_ok(s)
int_of(s) ==
    IF Head(s) = "-" THEN 0 - digits_value(Tail(s), 0)
    ELSE IF Head(s) = "+" THEN digits_value(Tail(s), 0)
    ELSE digits_value(s, 0)

RECURSIVE nat_str(_)
nat_str(n) ==
    IF n < 10 THEN <<Digits[n + 1]>>
    ELSE nat_str(n \div 10) \o <<Digits[(n % 10) + 1]>>

\* str(n) and "%i" % n
str(n) == IF n < 0 THEN <<"-">> \o nat_str(0 - n) ELSE nat_str(n)

----------------------------------------------------------------------------
(* Results of a call: a value or a raised exception *)

Ok(v) == [ok |-> TRUE, val |-> v]
Raise(e) == [ok |-> FALSE, err |-> e]

----------------------------------------------------------------------------
(* String literals of the source *)

S_localhost == <<"l","o","c","a","l","h","o","s","t">>
S_ssh == <<"s","s","h",":","/","/">>
S_ssh_sudo == <<"s","s","h","+","s","u","d","o",":","/","/">>
S_docker_image == <<"d","o","c","k","e","r","-","i","m","a","g","e",":","/","/">>
S_docker_container ==
    <<"d","o","c","k","e","r","-","c","o","n","t","a","i","n","e","r",":","/","/">>
S_vm_domain == <<"v","m","-","d","o","m","a","i","n",":","/","/">>
S_vm_image == <<"v","m","-","i","m","a","g","e",":","/","/">>
S_chroot == <<"c","h","r","o","o","t",":","/","/">>
A_sudo == <<"-","-","s","u","d","o">>
A_image == <<"i","m","a","g","e">>
A_container == <<"c","o","n","t","a","i","n","e","r">>
A_domain == <<"d","o","m","a","i","n">>

----------------------------------------------------------------------------
(* split_ssh_target and get_evaluation_args *)

\* split_ssh_target with the explicit port ignored: always the default port.
split_ssh_target_default_port(target) ==
    IF ~startswith(target, S_ssh) /\ ~startswith(target, S_ssh_sudo)
    THEN Raise("RuntimeError")
    ELSE LET without_prefix ==
                 IF startswith(target, S_ssh_sudo)
                 THEN slice_from(target, 11)
                 ELSE slice_from(target, 6)
         IN  IF contains(without_prefix, ":")
             THEN LET parts == split(without_prefix, ":")
                  IN  IF Len(parts) # 2 THEN Raise("ValueError")
                      ELSE IF ~int_ok(parts[2]) THEN Raise("ValueError")
                      ELSE Ok(<<parts[1], 22>>)
             ELSE Ok(<<without_prefix, 22>>)

split_ssh_target(target) ==
    IF ~startswith(target, S_ssh) /\ ~startswith(target, S_ssh_sudo)
    THEN Raise("RuntimeError")
    ELSE LET without_prefix ==
                 IF startswith(target, S_ssh_sudo)
                 THEN slice_from(target, 11)
                 ELSE slice_from(target, 6)
         IN  IF contains(without_prefix, ":")
             THEN LET parts == split(without_prefix, ":")
                  IN  IF Len(parts) # 2 THEN Raise("ValueError")
                      ELSE IF ~int_ok(parts[2]) THEN Raise("ValueError")
                      ELSE Ok(<<parts[1], int_of(parts[2])>>)
             ELSE Ok(<<without_prefix, 22>>)

get_evaluation_args(spec, config) ==
    LET prefix ==
        IF spec.target = S_localhost THEN
            IF config.oscap_path = <<>> THEN Raise("ToolNotConfigured")
            ELSE Ok(<<config.oscap_path>>)
        ELSE IF startswith(spec.target, S_ssh) THEN
            IF config.oscap_ssh_path = <<>> THEN Raise("ToolNotConfigured")
            ELSE LET hp == split_ssh_target(spec.target)
                 IN  IF ~hp.ok THEN hp
                     ELSE Ok(<<config.oscap_ssh_path, hp.val[1], str(hp.val[2])>>)
        ELSE IF startswith(spec.target, S_ssh_sudo) THEN
            IF config.oscap_ssh_path = <<>> THEN Raise("ToolNotConfigured")
            ELSE LET hp == split_ssh_target(spec.target)
                 IN  IF ~hp.ok THEN hp
                     ELSE Ok(<<config.oscap_ssh_path, A_sudo, hp.val[1],
                               str(hp.val[2])>>)
        ELSE IF startswith(spec.target, S_docker_image) THEN
            IF config.oscap_ssh_path = <<>> THEN Raise("ToolNotConfigured")
            ELSE Ok(<<config.oscap_docker_path, A_image,
                      slice_from(spec.target, Len(S_docker_image))>>)
        ELSE IF startswith(spec.target, S_docker_container) THEN
            IF config.oscap_ssh_path = <<>> THEN Raise("ToolNotConfigured")
            ELSE Ok(<<config.oscap_docker_path, A_container,
                      slice_from(spec.target, Len(S_docker_container))>>)
        ELSE IF startswith(spec.target, S_vm_domain) THEN
            IF config.oscap_vm_path = <<>> THEN Raise("ToolNotConfigured")
            ELSE Ok(<<config.oscap_vm_path, A_domain,
                      slice_from(spec.target, Len(S_vm_domain))>>)
        ELSE IF startswith(spec.target, S_vm_image) THEN
            IF config.oscap_vm_path = <<>> THEN Raise("ToolNotConfigured")
            ELSE Ok(<<config.oscap_vm_path, A_image,
                      slice_from(spec.target, Len(S_vm_image))>>)
        ELSE IF startswith(spec.target, S_chroot) THEN
            IF config.oscap_chroot_path = <<>> THEN Raise("ToolNotConfigured")
            ELSE Ok(<<config.oscap_chroot_path,
                      slice_from(spec.target, Len(S_chroot))>>)
        ELSE Raise("UnknownTarget")
    IN  IF ~prefix.ok THEN prefix
        ELSE Ok(prefix.val \o spec.oscap_arguments)

----------------------------------------------------------------------------
(* EvaluationMode *)

UNKNOWN == -1
SOURCE_DATASTREAM == 1
OVAL == 2
CVE_SCAN == 3
STANDARD_SCAN == 4

to_string(value) ==
    IF value = SOURCE_DATASTREAM THEN "sds"
    ELSE IF value = OVAL THEN "oval"
    ELSE IF value = CVE_SCAN THEN "cve_scan"
    ELSE IF value = STANDARD_SCAN THEN "standard_scan"
    ELSE "unknown"

\* from_string with the oval and cve_scan tokens exchanged.
from_string_swapped(value) ==
    IF value = "sds" THEN SOURCE_DATASTREAM
    ELSE IF value = "cve_scan" THEN OVAL
    ELSE IF value = "oval" THEN CVE_SCAN
    ELSE IF value = "standard_scan" THEN STANDARD_SCAN
    ELSE UNKNOWN

from_string(value) ==
    IF value = "sds" THEN SOURCE_DATASTREAM
    ELSE IF value = "oval" THEN OVAL
    ELSE IF value = "cve_scan" THEN CVE_SCAN
    ELSE IF value = "standard_scan" THEN STANDARD_SCAN
    ELSE UNKNOWN

----------------------------------------------------------------------------
(* get_status_from_exit_code and the severity evaluate logs *)

\* get_status_from_exit_code with the texts of 1 and 2 exchanged.
get_status_from_exit_code_swapped(code) ==
    IF code = 0 THEN <<"Compliant">>
    ELSE IF code = 1 THEN <<"Non-Compliant">>
    ELSE IF code = 2 THEN <<"Evaluation Error">>
    ELSE <<"Unknown (exit_code = ">> \o str(code) \o <<")">>

\* The text is a sequence of fragments: a literal of the source is one
\* fragment, the formatted code ("%i") its characters.
get_status_from_exit_code(code) ==
    IF code = 0 THEN <<"Compliant">>
    ELSE IF code = 1 THEN <<"Evaluation Error">>
    ELSE IF code = 2 THEN <<"Non-Compliant">>
    ELSE <<"Unknown (exit_code = ">> \o str(code) \o <<")">>

\* The logging call evaluate makes for an exit code.
evaluate_log_severity(code) ==
    IF code = 0 THEN "info"
    ELSE IF code = 2 THEN "warning"
    ELSE IF code = 1 THEN "error"
    ELSE "error"

----------------------------------------------------------------------------
(* get_profile_choices_for_input *)

(* A file is Missing (opening it raises IOError), Malformed (parsing it     *)
(* raises ParseError) or a parsed tree:                                      *)
(*   [ns, refs, comps]  ns: the scap-source namespace of the document's      *)
(*                      checklists, component-ref and component elements     *)
(*   refs[i]  = [id, href]      the component-ref children of checklists     *)
(*   comps[i] = [id, profiles]  the component elements                       *)
(*   profiles[j] = [ns, id, title]  the Profile elements below a component,  *)
(*                      ns their xccdf namespace, title NoTitle when the     *)
(*                      Profile has no title child                           *)
Missing == [kind |-> "missing"]
Malformed == [kind |-> "malformed"]
Tree(ns, refs, comps) == [kind |-> "tree", ns |-> ns, refs |-> refs, comps |-> comps]

NS_SOURCE_11 == "http://scap.nist.gov/schema/scap/source/1.1"
NS_SOURCE_12 == "http://scap.nist.gov/schema/scap/source/1.2"
NS_XCCDF_11 == "http://checklists.nist.gov/xccdf/1.1"
NS_XCCDF_12 == "http://checklists.nist.gov/xccdf/1.2"

NoTitle == "<no title element>"
NoId == "<None>"
EmptyMap == [x \in {} |-> ""]

\* dest[key] = value
MapSet(dest, key, value) ==
    [x \in DOMAIN dest \cup {key} |-> IF x = key THEN value ELSE dest[x]]

\* et_helpers.get_element_text(elem, "{ns}title", default)
get_element_text(elem, default) ==
    IF elem.title = NoTitle THEN default ELSE elem.title

\* The Profile elements, in document order, below the components with id c.
RECURSIVE profiles_of(_, _, _)
profiles_of(comps, c, profile_ns) ==
    IF comps = <<>> THEN <<>>
    ELSE (IF Head(comps).id = c
          THEN SelectSeq(Head(comps).profiles, LAMBDA e : e.ns = profile_ns)
          ELSE <<>>)
         \o profiles_of(Tail(comps), c, profile_ns)

RECURSIVE record_profiles(_, _)
record_profiles(elems, dest) ==
    IF elems = <<>> THEN dest
    ELSE record_profiles(Tail(elems),
                         MapSet(dest, Head(elems).id,
                                get_element_text(Head(elems), "")))

\* The loop over the selected component-ref elements.
RECURSIVE scrape_refs(_, _, _, _)
scrape_refs(tree, xccdfs, profile_ns, dest) ==
    IF xccdfs = <<>> THEN Ok(dest)
    ELSE LET x == Head(xccdfs)
             c == Tail(x.href)
         IN  scrape_refs(tree, Tail(xccdfs), profile_ns,
                         record_profiles(profiles_of(tree.comps, c, profile_ns),
                                         dest))

scrape_profiles(tree, xccdf_id, xccdf_ns, profile_ns, dest) ==
    LET in_ns == IF tree.ns = xccdf_ns THEN tree.refs ELSE <<>>
        xccdfs ==
            IF xccdf_id = NoId
            THEN (IF in_ns = <<>> THEN <<>> ELSE <<Head(in_ns)>>)
            ELSE SelectSeq(in_ns, LAMBDA r : r.id = xccdf_id)
        comps_in_ns == IF tree.ns = xccdf_ns THEN tree.comps ELSE <<>>
    IN  scrape_refs([tree EXCEPT !.comps = comps_in_ns], xccdfs, profile_ns, dest)

\* get_profile_choices_for_input with the final "(default)" entry forgotten.
get_profile_choices_no_sentinel(input_file, tailoring_file, xccdf_id) ==
    IF input_file.kind # "tree" THEN Ok(EmptyMap)
    ELSE
    LET r1 == scrape_profiles(input_file, xccdf_id, NS_SOURCE_11, NS_XCCDF_11,
                              EmptyMap)
        r2 == scrape_profiles(input_file, xccdf_id, NS_SOURCE_12, NS_XCCDF_12,
                              r1.val)
    IN  IF tailoring_file.kind = "none" THEN r2
        ELSE IF tailoring_file.kind = "missing" THEN Raise("IOError")
        ELSE IF tailoring_file.kind = "malformed" THEN Raise("ParseError")
        ELSE LET r3 == scrape_profiles(tailoring_file, NoId, NS_SOURCE_11,
                                       NS_XCCDF_11, r2.val)
             IN  scrape_profiles(tailoring_file, NoId, NS_SOURCE_12,
                                 NS_XCCDF_12, r3.val)

get_profile_choices_for_input(input_file, tailoring_file, xccdf_id) ==
    IF input_file.kind = "missing" THEN Ok(EmptyMap)
    ELSE IF input_file.kind = "malformed" THEN Ok(EmptyMap)
    ELSE
    LET r1 == scrape_profiles(input_file, xccdf_id, NS_SOURCE_11, NS_XCCDF_11,
                              EmptyMap)
        r2 == scrape_profiles(input_file, xccdf_id, NS_SOURCE_12, NS_XCCDF_12,
                              r1.val)
        r4 == IF tailoring_file.kind = "none" THEN r2
              ELSE IF tailoring_file.kind = "missing" THEN Raise("IOError")
              ELSE IF tailoring_file.kind = "malformed" THEN Raise("ParseError")
              ELSE LET r3 == scrape_profiles(tailoring_file, NoId, NS_SOURCE_11,
                                             NS_XCCDF_11, r2.val)
                   IN  scrape_profiles(tailoring_file, NoId, NS_SOURCE_12,
                                       NS_XCCDF_12, r3.val)
    IN  IF ~r4.ok THEN r4
        ELSE Ok(MapSet(r4.val, "", "(default)"))

----------------------------------------------------------------------------
(* Inputs of target resolution *)

Alphabet == {"h", "2", "0", ":", "-"}

RECURSIVE SeqsUpTo(_, _)
SeqsUpTo(S, n) ==
    IF n = 0 THEN {<<>>}
    ELSE LET shorter == SeqsUpTo(S, n - 1)
         IN  shorter \cup {Append(s, x) : s \in {t \in shorter : Len(t) = n - 1}, x \in S}

Remainders == SeqsUpTo(Alphabet, MaxLen)

Schemes ==
    {S_ssh, S_ssh_sudo, S_docker_image, S_docker_container,
     S_vm_domain, S_vm_image, S_chroot}

T_ssh_h_2222 == S_ssh \o <<"h", ":", "2", "2", "2", "2">>
T_ssh_h == S_ssh \o <<"h">>
T_sudo_h_2222 == S_ssh_sudo \o <<"h", ":", "2", "2", "2", "2">>
T_foo_x == <<"f", "o", "o", ":", "/", "/", "x">>

Targets ==
    {S_localhost, T_ssh_h_2222, T_sudo_h_2222, T_foo_x}
    \cup {p \o r : p \in Schemes, r \in Remainders}
    \cup {S_localhost \o r : r \in {<<"h">>, <<":", "2">>}}
    \cup {<<"s", "s", "h", ":", "/">>, <<"S", "S", "H", ":", "/", "/", "h">>}

P_oscap == <<"/", "o">>
P_ssh == <<"/", "s">>
P_docker == <<"/", "d">>
P_vm == <<"/", "v">>
P_chroot == <<"/", "c">>
WipDir == <<"/", "w">>

\* Every path of the config is either found or the empty string.
Configs ==
    [oscap_path : {<<>>, P_oscap},
     oscap_ssh_path : {<<>>, P_ssh},
     oscap_docker_path : {<<>>, P_docker},
     oscap_vm_path : {<<>>, P_vm},
     oscap_chroot_path : {<<>>, P_chroot},
     work_in_progress_dir : {WipDir}]

AllToolsConfig ==
    [oscap_path |-> P_oscap, oscap_ssh_path |-> P_ssh,
     oscap_docker_path |-> P_docker, oscap_vm_path |-> P_vm,
     oscap_chroot_path |-> P_chroot, work_in_progress_dir |-> WipDir]

\* What spec.get_oscap_arguments(config) contributes: an input of the model.
OscapArguments == {<<>>, <<<<"x", "c", "c", "d", "f">>, <<"e", "v", "a", "l">>>>}

None == [ok |-> FALSE, err |-> "not called"]

----------------------------------------------------------------------------
(* The callers, the run directories and the spawned processes *)

Callers == {1, 2}

DirNames == 1..MaxDirs
NoDir == 0

ReturnCodes == (0 - 1)..MaxReturnCode

\* A file of a run directory: whether it exists, who created or wrote it,
\* how many times it was opened for writing, and its text.
NoFile == [exists |-> FALSE, writers |-> {}, opens |-> 0, data |-> <<>>]
NoDirectory ==
    [exists |-> FALSE, stdout |-> NoFile, stderr |-> NoFile, exit_code |-> NoFile]
EmptyDirectory == [NoDirectory EXCEPT !.exists = TRUE]

\* io.open(path, "w"): creates the file or truncates it.
OpenW(file, c) ==
    [exists |-> TRUE, writers |-> file.writers \cup {c},
     opens |-> file.opens + 1, data |-> <<>>]

\* f.write(text)
Write(file, c, text) ==
    [exists |-> TRUE, writers |-> file.writers \cup {c},
     opens |-> file.opens, data |-> file.data \o text]

NoProc == [state |-> "none", rc |-> 0]
LaunchFailed == [state |-> "failed", rc |-> 0]
Exited(rc) == [state |-> "exited", rc |-> rc]

NoArgs == <<>>
Running == [ok |-> FALSE, err |-> "running"]

ModeValuesOfSpecs == {SOURCE_DATASTREAM, OVAL, CVE_SCAN, STANDARD_SCAN, UNKNOWN}

NoInput ==
    [op |-> "none", valid |-> FALSE, mode |-> UNKNOWN, target |-> <<>>,
     oscap_arguments |-> <<>>, config |-> AllToolsConfig,
     results_exist |-> FALSE, results_doc |-> "none", fix_type |-> "none",
     xccdf_id |-> NoId]

SysIdle ==
    /\ pc = [c \in Callers |-> "idle"]
    /\ inp = [c \in Callers |-> NoInput]
    /\ wd = [c \in Callers |-> NoDir]
    /\ args = [c \in Callers |-> NoArgs]
    /\ exit_code = [c \in Callers |-> 0]
    /\ proc = [c \in Callers |-> NoProc]
    /\ out = [c \in Callers |-> Running]
    /\ sev = [c \in Callers |-> "none"]
    /\ fs = [d \in DirNames |-> NoDirectory]

PureIdle == arg = None /\ res = None /\ fn = <<>>

----------------------------------------------------------------------------
(* evaluate, one action per step of the call *)

\* The call and its first check: an invalid spec raises at once.
EvaluateCall(c, targets, configs) ==
    /\ pc[c] = "idle"
    /\ \E valid \in BOOLEAN, target \in targets, config \in configs,
          oscap_arguments \in OscapArguments :
          /\ inp' = [inp EXCEPT ![c] =
                        [NoInput EXCEPT !.op = "evaluate", !.valid = valid,
                                        !.target = target, !.config = config,
                                        !.oscap_arguments = oscap_arguments]]
          /\ IF ~valid
             THEN /\ out' = [out EXCEPT ![c] = Raise("InvalidSpec")]
                  /\ pc' = [pc EXCEPT ![c] = "done"]
             ELSE /\ out' = out
                  /\ pc' = [pc EXCEPT ![c] = "ev_mkdtemp"]
    /\ UNCHANGED <<wd, args, exit_code, proc, sev, fs, pvars>>

\* tempfile.mkdtemp with the existence check lost: any name may come back.
EvMkdtemp_reuse(c) ==
    /\ pc[c] = "ev_mkdtemp"
    /\ \E d \in DirNames :
          /\ fs' = [fs EXCEPT ![d] = [@ EXCEPT !.exists = TRUE]]
          /\ wd' = [wd EXCEPT ![c] = d]
    /\ pc' = [pc EXCEPT ![c] = "ev_open_stdout"]
    /\ UNCHANGED <<inp, args, exit_code, proc, out, sev, pvars>>

\* tempfile.mkdtemp: a new directory under a name that does not exist yet.
EvMkdtemp(c) ==
    /\ pc[c] = "ev_mkdtemp"
    /\ \E d \in DirNames :
          /\ ~fs[d].exists
          /\ fs' = [fs EXCEPT ![d] = EmptyDirectory]
          /\ wd' = [wd EXCEPT ![c] = d]
    /\ pc' = [pc EXCEPT ![c] = "ev_open_stdout"]
    /\ UNCHANGED <<inp, args, exit_code, proc, out, sev, pvars>>

EvOpenStdout(c) ==
    /\ pc[c] = "ev_open_stdout"
    /\ fs' = [fs EXCEPT ![wd[c]].stdout = OpenW(@, c)]
    /\ pc' = [pc EXCEPT ![c] = "ev_open_stderr"]
    /\ UNCHANGED <<inp, wd, args, exit_code, proc, out, sev, pvars>>

EvOpenStderr(c) ==
    /\ pc[c] = "ev_open_stderr"
    /\ fs' = [fs EXCEPT ![wd[c]].stderr = OpenW(@, c)]
    /\ pc' = [pc EXCEPT ![c] = "ev_args"]
    /\ UNCHANGED <<inp, wd, args, exit_code, proc, out, sev, pvars>>

\* args = get_evaluation_args(spec, config), then exit_code = 1.
EvArgs(c) ==
    /\ pc[c] = "ev_args"
    /\ LET r == get_evaluation_args(inp[c], inp[c].config)
       IN  IF r.ok
           THEN /\ args' = [args EXCEPT ![c] = r.val]
                /\ exit_code' = [exit_code EXCEPT ![c] = 1]
                /\ out' = out
                /\ pc' = [pc EXCEPT ![c] = "ev_call"]
           ELSE /\ out' = [out EXCEPT ![c] = r]
                /\ pc' = [pc EXCEPT ![c] = "done"]
                /\ UNCHANGED <<args, exit_code>>
    /\ UNCHANGED <<inp, wd, proc, sev, fs, pvars>>

\* The outcomes of launching args: a program with an empty name cannot be
\* executed; any other may fail to launch or run and return a code.
Outcomes(argv) ==
    IF argv[1] = <<>> THEN {LaunchFailed}
    ELSE {LaunchFailed} \cup {Exited(rc) : rc \in ReturnCodes}

\* subprocess.call without the try/except: a launch failure is raised.
EvCall_no_except(c) ==
    /\ pc[c] = "ev_call"
    /\ \E o \in Outcomes(args[c]) :
          /\ proc' = [proc EXCEPT ![c] = o]
          /\ IF o.state = "exited"
             THEN /\ exit_code' = [exit_code EXCEPT ![c] = o.rc]
                  /\ pc' = [pc EXCEPT ![c] = "ev_write_exit_code"]
                  /\ out' = out
             ELSE /\ exit_code' = exit_code
                  /\ pc' = [pc EXCEPT ![c] = "done"]
                  /\ out' = [out EXCEPT ![c] = Raise("OSError")]
    /\ UNCHANGED <<inp, wd, args, sev, fs, pvars>>

\* subprocess.call inside try/except: the return code, or exit_code stays 1
\* when the launch raises.  The process writes to the two open files.
EvCall(c) ==
    /\ pc[c] = "ev_call"
    /\ \E o \in Outcomes(args[c]) :
          /\ proc' = [proc EXCEPT ![c] = o]
          /\ IF o.state = "exited"
             THEN /\ exit_code' = [exit_code EXCEPT ![c] = o.rc]
                  /\ fs' = [fs EXCEPT
                              ![wd[c]].stdout = Write(@, c, <<>>),
                              ![wd[c]].stderr = Write(@, c, <<>>)]
             ELSE /\ exit_code' = exit_code
                  /\ fs' = fs
    /\ pc' = [pc EXCEPT ![c] = "ev_write_exit_code"]
    /\ UNCHANGED <<inp, wd, args, out, sev, pvars>>

\* The exit_code file written twice: the code, then the code again.
EvWriteExitCode_twice(c) ==
    /\ pc[c] = "ev_write_exit_code"
    /\ fs' = [fs EXCEPT ![wd[c]].exit_code =
                 Write(Write(OpenW(@, c), c, str(exit_code[c])), c,
                       str(exit_code[c]))]
    /\ pc' = [pc EXCEPT ![c] = "ev_log"]
    /\ UNCHANGED <<inp, wd, args, exit_code, proc, out, sev, pvars>>

\* io.open(exit_code, "w") and f.write(u"%i" % exit_code)
EvWriteExitCode(c) ==
    /\ pc[c] = "ev_write_exit_code"
    /\ fs' = [fs EXCEPT ![wd[c]].exit_code =
                 Write(OpenW(@, c), c, str(exit_code[c]))]
    /\ pc' = [pc EXCEPT ![c] = "ev_log"]
    /\ UNCHANGED <<inp, wd, args, exit_code, proc, out, sev, pvars>>

\* The log call for the exit code and return working_directory.
EvLog(c) ==
    /\ pc[c] = "ev_log"
    /\ sev' = [sev EXCEPT ![c] = evaluate_log_severity(exit_code[c])]
    /\ out' = [out EXCEPT ![c] = Ok(wd[c])]
    /\ pc' = [pc EXCEPT ![c] = "done"]
    /\ UNCHANGED <<inp, wd, args, exit_code, proc, fs, pvars>>

----------------------------------------------------------------------------
(* Specification of concurrent evaluation: two callers, each calling        *)
(* evaluate once, their steps interleaved in any order.                     *)

T_docker_image_h == S_docker_image \o <<"h">>

ConcTargets == {S_localhost, T_docker_image_h, T_foo_x}

NoDockerConfig == [AllToolsConfig EXCEPT !.oscap_docker_path = <<>>]

ConcConfigs == {AllToolsConfig, NoDockerConfig}

Init == SysIdle /\ PureIdle

Next ==
    \E c \in Callers :
        \/ EvaluateCall(c, ConcTargets, ConcConfigs)
        \/ EvMkdtemp(c)
        \/ EvOpenStdout(c)
        \/ EvOpenStderr(c)
        \/ EvArgs(c)
        \/ EvCall(c)
        \/ EvWriteExitCode(c)
        \/ EvLog(c)

Spec == Init /\ [][Next]_vars

----------------------------------------------------------------------------
(* generate_guide, generate_report_for_result, generate_fix_for_result and  *)
(* generate_fix                                                              *)

\* A literal argument of the source, kept as one fragment.
W(word) == <<word>>

\* What spec.get_oscap_guide_arguments(config) contributes, spec.profile_id
\* and spec.input_.file_path: inputs the model fixes.
GuideArguments == <<W("--profile"), W("p1"), W("input.xml")>>
ProfileId == W("p1")
InputFilePath == W("input.xml")
ResultsPath == W("results.xml")
TestResultId == W("xccdf_org.open-scap_testresult_p1")

FixTypes == {"bash", "ansible", "puppet", "chef"}
ResultsDocs == {"ok", "no TestResult", "malformed"}

get_generate_guide_args(spec, config) ==
    <<config.oscap_path, W("xccdf"), W("generate"), W("guide")>>
    \o GuideArguments

get_generate_report_args_for_results(spec, results_path, config) ==
    IF spec.mode = SOURCE_DATASTREAM
    THEN Ok(<<config.oscap_path, W("xccdf"), W("generate"), W("report"),
              results_path>>)
    ELSE IF spec.mode = OVAL
    THEN Ok(<<config.oscap_path, W("oval"), W("generate"), W("report"),
              results_path>>)
    ELSE IF spec.mode = CVE_SCAN
    THEN Ok(<<config.oscap_path, W("oval"), W("generate"), W("report"),
              results_path>>)
    ELSE IF spec.mode = STANDARD_SCAN
    THEN Ok(<<config.oscap_path, W("xccdf"), W("generate"), W("report"),
              results_path>>)
    ELSE Raise("UnknownMode")

fix_type_to_template(fix_type) ==
    IF fix_type = "bash" THEN Ok(W("urn:xccdf:fix:script:sh"))
    ELSE IF fix_type = "ansible" THEN Ok(W("urn:xccdf:fix:script:ansible"))
    ELSE IF fix_type = "puppet" THEN Ok(W("urn:xccdf:fix:script:puppet"))
    ELSE Raise("KeyError")

get_result_id(results_doc) ==
    IF results_doc = "malformed" THEN Raise("ParseError")
    ELSE IF results_doc = "no TestResult" THEN Raise("MalformedResultsDocument")
    ELSE Ok(TestResultId)

\* The end of a call that raised before building its arguments, or the
\* arguments it goes on to launch.
Proceed(c, r) ==
    IF r.ok
    THEN /\ args' = [args EXCEPT ![c] = r.val]
         /\ pc' = [pc EXCEPT ![c] = "check_output"]
         /\ out' = out
    ELSE /\ args' = args
         /\ pc' = [pc EXCEPT ![c] = "done"]
         /\ out' = [out EXCEPT ![c] = r]

GenerateGuideCall(c, configs) ==
    /\ pc[c] = "idle"
    /\ \E valid \in BOOLEAN, mode \in ModeValuesOfSpecs, config \in configs :
          LET spec == [NoInput EXCEPT !.op = "generate_guide", !.valid = valid,
                                      !.mode = mode, !.config = config]
          IN  /\ inp' = [inp EXCEPT ![c] = spec]
              /\ Proceed(c,
                    IF spec.mode \notin {SOURCE_DATASTREAM, STANDARD_SCAN}
                    THEN Raise("UnsupportedMode")
                    ELSE IF ~spec.valid THEN Raise("InvalidSpec")
                    ELSE Ok(get_generate_guide_args(spec, config)))
    /\ UNCHANGED <<wd, exit_code, proc, sev, fs, pvars>>

GenerateReportForResultCall(c, configs) ==
    /\ pc[c] = "idle"
    /\ \E valid \in BOOLEAN, mode \in ModeValuesOfSpecs, config \in configs,
          results_exist \in BOOLEAN :
          LET spec == [NoInput EXCEPT !.op = "generate_report_for_result",
                                      !.valid = valid, !.mode = mode,
                                      !.config = config,
                                      !.results_exist = results_exist]
          IN  /\ inp' = [inp EXCEPT ![c] = spec]
              /\ Proceed(c,
                    IF ~spec.valid THEN Raise("InvalidSpec")
                    ELSE IF ~results_exist THEN Raise("ResultsNotFound")
                    ELSE get_generate_report_args_for_results(
                             spec, ResultsPath, config))
    /\ UNCHANGED <<wd, exit_code, proc, sev, fs, pvars>>

GenerateFixForResultCall(c, configs) ==
    /\ pc[c] = "idle"
    /\ \E config \in configs, results_exist \in BOOLEAN,
          results_doc \in ResultsDocs, fix_type \in FixTypes,
          xccdf_id \in {NoId, "x1"} :
          LET result_id == get_result_id(results_doc)
              template == fix_type_to_template(fix_type)
          IN  /\ inp' = [inp EXCEPT ![c] =
                            [NoInput EXCEPT !.op = "generate_fix_for_result",
                                            !.config = config,
                                            !.results_exist = results_exist,
                                            !.results_doc = results_doc,
                                            !.fix_type = fix_type,
                                            !.xccdf_id = xccdf_id]]
              /\ Proceed(c,
                    IF ~results_exist THEN Raise("ResultsNotFound")
                    ELSE IF ~result_id.ok THEN result_id
                    ELSE IF ~template.ok THEN template
                    ELSE Ok(<<config.oscap_path, W("xccdf"), W("generate"),
                              W("fix"), W("--result-id"), result_id.val,
                              W("--template"), template.val>>
                            \o (IF xccdf_id # NoId
                                THEN <<W("--xccdf-id"), W(xccdf_id)>>
                                ELSE <<>>)
                            \o <<ResultsPath>>))
    /\ UNCHANGED <<wd, exit_code, proc, sev, fs, pvars>>

GenerateFixCall(c, configs) ==
    /\ pc[c] = "idle"
    /\ \E valid \in BOOLEAN, mode \in ModeValuesOfSpecs, config \in configs,
          fix_type \in FixTypes :
          LET spec == [NoInput EXCEPT !.op = "generate_fix", !.valid = valid,
                                      !.mode = mode, !.config = config,
                                      !.fix_type = fix_type]
              template == fix_type_to_template(fix_type)
          IN  /\ inp' = [inp EXCEPT ![c] = spec]
              /\ Proceed(c,
                    IF spec.mode \notin {SOURCE_DATASTREAM, STANDARD_SCAN}
                    THEN Raise("UnsupportedMode")
                    ELSE IF ~spec.valid THEN Raise("InvalidSpec")
                    ELSE IF ~template.ok THEN template
                    ELSE Ok(<<config.oscap_path, W("xccdf"), W("generate"),
                              W("fix"), W("--profile"), ProfileId,
                              W("--template"), template.val, InputFilePath>>))
    /\ UNCHANGED <<wd, exit_code, proc, sev, fs, pvars>>

\* subprocess_check_output(args): the decoded output of a process that
\* returned 0, an exception when it could not be launched or returned
\* another code.
CheckOutput(c) ==
    /\ pc[c] = "check_output"
    /\ \E o \in Outcomes(args[c]) :
          /\ proc' = [proc EXCEPT ![c] = o]
          /\ out' = [out EXCEPT ![c] =
                        IF o.state = "failed" THEN Raise("OSError")
                        ELSE IF o.rc # 0 THEN Raise("CalledProcessError")
                        ELSE Ok(W("output"))]
    /\ pc' = [pc EXCEPT ![c] = "done"]
    /\ UNCHANGED <<inp, wd, args, exit_code, sev, fs, pvars>>

----------------------------------------------------------------------------
(* Specification of the operations: one caller calls any of the five        *)
(* operations that launch a process, with any target and any config.        *)

OpsTargets ==
    {S_localhost, T_ssh_h_2222, S_ssh \o <<"h", ":", "h">>,
     S_ssh_sudo \o <<"h">>, T_docker_image_h, S_docker_container \o <<"h">>,
     S_vm_domain \o <<"h">>, S_vm_image \o <<"h">>, S_chroot \o <<"/", "h">>,
     T_foo_x}

OpsCallers == {1}

NextOps ==
    \E c \in OpsCallers :
        \/ EvaluateCall(c, OpsTargets, Configs)
        \/ EvMkdtemp(c)
        \/ EvOpenStdout(c)
        \/ EvOpenStderr(c)
        \/ EvArgs(c)
        \/ EvCall(c)
        \/ EvWriteExitCode(c)
        \/ EvLog(c)
        \/ GenerateGuideCall(c, Configs)
        \/ GenerateReportForResultCall(c, Configs)
        \/ GenerateFixForResultCall(c, Configs)
        \/ GenerateFixCall(c, Configs)
        \/ CheckOutput(c)

SpecOps == Init /\ [][NextOps]_vars

----------------------------------------------------------------------------
(* Specification of target resolution: the inputs are drawn in Init, the    *)
(* actions apply get_evaluation_args and split_ssh_target.                  *)

InitResolve ==
    /\ SysIdle
    /\ arg \in [target : Targets, oscap_arguments : OscapArguments,
                config : Configs]
    /\ res = None
    /\ fn = <<>>

CallGetEvaluationArgs ==
    /\ fn = <<>>
    /\ res' = get_evaluation_args(arg, arg.config)
    /\ fn' = <<"get_evaluation_args">>
    /\ UNCHANGED <<arg, svars>>

CallSplitSshTarget ==
    /\ fn = <<>>
    /\ res' = split_ssh_target(arg.target)
    /\ fn' = <<"split_ssh_target">>
    /\ UNCHANGED <<arg, svars>>

NextResolve == CallGetEvaluationArgs \/ CallSplitSshTarget

SpecResolve == InitResolve /\ [][NextResolve]_vars

----------------------------------------------------------------------------
(* Specification of EvaluationMode: a value or a string is drawn in Init,   *)
(* the actions apply to_string and from_string in chains.                   *)

\* A value of the chain: an integer (a mode) or a string (a token).
IntV(n) == [t |-> "int", i |-> n, s |-> ""]
StrV(x) == [t |-> "str", i |-> 0, s |-> x]

ModeTokens == {"sds", "oval", "cve_scan", "standard_scan"}

RealModes == {SOURCE_DATASTREAM, OVAL, CVE_SCAN, STANDARD_SCAN}

ModeStrings ==
    ModeTokens \cup {"unknown", "", "SDS", "oval ", "cve-scan", "standard",
                     "1", "Unknown"}

InitMode ==
    /\ SysIdle
    /\ arg \in {IntV(n) : n \in (0 - MaxModeValue)..MaxModeValue}
               \cup {StrV(x) : x \in ModeStrings}
    /\ res = arg
    /\ fn = <<>>

CallToString ==
    /\ Len(fn) < MaxSteps
    /\ res.t = "int"
    /\ res' = StrV(to_string(res.i))
    /\ fn' = Append(fn, "to_string")
    /\ UNCHANGED <<arg, svars>>

CallFromString ==
    /\ Len(fn) < MaxSteps
    /\ res.t = "str"
    /\ res' = IntV(from_string(res.s))
    /\ fn' = Append(fn, "from_string")
    /\ UNCHANGED <<arg, svars>>

NextMode == CallToString \/ CallFromString

SpecMode == InitMode /\ [][NextMode]_vars

----------------------------------------------------------------------------
(* Specification of the exit code classification: an exit code is drawn in  *)
(* Init, the actions classify it and log it as evaluate does.               *)

NotClassified == <<>>
NotLogged == "none"

InitStatus ==
    /\ SysIdle
    /\ arg \in (0 - MaxExitCode)..MaxExitCode
    /\ res = [status |-> NotClassified, severity |-> NotLogged]
    /\ fn = <<>>

CallGetStatus ==
    /\ res.status = NotClassified
    /\ res' = [res EXCEPT !.status = get_status_from_exit_code(arg)]
    /\ fn' = Append(fn, "get_status_from_exit_code")
    /\ UNCHANGED <<arg, svars>>

CallLogSeverity ==
    /\ res.severity = NotLogged
    /\ res' = [res EXCEPT !.severity = evaluate_log_severity(arg)]
    /\ fn' = Append(fn, "evaluate_log_severity")
    /\ UNCHANGED <<arg, svars>>

NextStatus == CallGetStatus \/ CallLogSeverity

SpecStatus == InitStatus /\ [][NextStatus]_vars

----------------------------------------------------------------------------
(* Specification of profile discovery: the content document, the tailoring  *)
(* document and the checklist id are drawn in Init.                          *)

\* Component ids and hrefs are character sequences: the code strips the
\* first character of the href and compares the rest with the id.
C1_id == <<"c", "1">>
C2_id == <<"c", "2">>
TC_id == <<"t", "c">>
Href(c) == <<"#">> \o c

RefChoices ==
    {[id |-> "r1", href |-> Href(C1_id)],
     [id |-> "r2", href |-> Href(C2_id)],
     [id |-> "r1", href |-> Href(C2_id)]}

Profile(ns, id, title) == [ns |-> ns, id |-> id, title |-> title]

CompChoices ==
    {[id |-> C1_id,
      profiles |-> <<Profile(NS_XCCDF_12, "p1", "Title A"),
                     Profile(NS_XCCDF_12, "p2", "Title B")>>],
     [id |-> C2_id,
      profiles |-> <<Profile(NS_XCCDF_11, "p1", "Title A"),
                     Profile(NS_XCCDF_12, "p2", NoTitle)>>],
     [id |-> C1_id,
      profiles |-> <<Profile(NS_XCCDF_11, "", "Empty id"),
                     Profile(NS_XCCDF_11, "p1", "Title A1")>>]}

Trees ==
    {Tree(ns, refs, comps) :
        ns \in {NS_SOURCE_11, NS_SOURCE_12},
        refs \in SeqsUpTo(RefChoices, MaxRefs),
        comps \in SeqsUpTo(CompChoices, MaxComps)}

NoTailoring == [kind |-> "none"]

TailoringTree ==
    Tree(NS_SOURCE_12, <<[id |-> "t1", href |-> Href(TC_id)]>>,
         <<[id |-> TC_id,
            profiles |-> <<Profile(NS_XCCDF_12, "p1", "Title A2")>>]>>)

InitProfiles ==
    /\ SysIdle
    /\ arg \in [input_file : {Missing, Malformed} \cup Trees,
                tailoring_file : {NoTailoring, Missing, Malformed, TailoringTree},
                xccdf_id : {NoId, "r1", "r2"}]
    /\ res = None
    /\ fn = <<>>

CallGetProfileChoices ==
    /\ fn = <<>>
    /\ res' = get_profile_choices_for_input(arg.input_file, arg.tailoring_file,
                                            arg.xccdf_id)
    /\ fn' = <<"get_profile_choices_for_input">>
    /\ UNCHANGED <<arg, svars>>

NextProfiles == CallGetProfileChoices

SpecProfiles == InitProfiles /\ [][NextProfiles]_vars

----------------------------------------------------------------------------
(* Claims about target resolution (SpecResolve) *)

\* The scheme table of the target grammar: the scheme a target string is
\* tagged with, and "unknown" when it matches none.
SchemeOf(target) ==
    IF target = S_localhost THEN "localhost"
    ELSE IF startswith(target, S_ssh) THEN "ssh"
    ELSE IF startswith(target, S_ssh_sudo) THEN "ssh+sudo"
    ELSE IF startswith(target, S_docker_image) THEN "docker-image"
    ELSE IF startswith(target, S_docker_container) THEN "docker-container"
    ELSE IF startswith(target, S_vm_domain) THEN "vm-domain"
    ELSE IF startswith(target, S_vm_image) THEN "vm-image"
    ELSE IF startswith(target, S_chroot) THEN "chroot"
    ELSE "unknown"

SchemePrefix(scheme) ==
    CASE scheme = "ssh" -> S_ssh
      [] scheme = "ssh+sudo" -> S_ssh_sudo
      [] scheme = "docker-image" -> S_docker_image
      [] scheme = "docker-container" -> S_docker_container
      [] scheme = "vm-domain" -> S_vm_domain
      [] scheme = "vm-image" -> S_vm_image
      [] scheme = "chroot" -> S_chroot

\* The binary each scheme uses.
RequiredBinary(scheme, config) ==
    CASE scheme = "localhost" -> config.oscap_path
      [] scheme \in {"ssh", "ssh+sudo"} -> config.oscap_ssh_path
      [] scheme \in {"docker-image", "docker-container"} -> config.oscap_docker_path
      [] scheme \in {"vm-domain", "vm-image"} -> config.oscap_vm_path
      [] scheme = "chroot" -> config.oscap_chroot_path

\* The documented host and port of an ssh remainder: split once at the first
\* colon, the port numeric, 22 without a colon.
DocumentedHostPort(rest) ==
    LET i == find_first(rest, ":", 1)
    IN  IF i > Len(rest) THEN Ok(<<rest, <<"2", "2">>>>)
        ELSE LET port_str == SubSeq(rest, i + 1, Len(rest))
             IN  IF ~int_ok(port_str) THEN Raise("ValueError")
                 ELSE Ok(<<SubSeq(rest, 1, i - 1), str(int_of(port_str))>>)

\* The documented result of resolving a target with every tool configured.
Documented(target, config, spec_args) ==
    LET scheme == SchemeOf(target)
        rest == IF scheme \in {"localhost", "unknown"} THEN <<>>
                ELSE SubSeq(target, Len(SchemePrefix(scheme)) + 1, Len(target))
        hp == DocumentedHostPort(rest)
    IN  CASE scheme = "unknown" -> Raise("UnknownTarget")
          [] scheme = "localhost" -> Ok(<<config.oscap_path>> \o spec_args)
          [] scheme = "ssh" ->
                IF hp.ok THEN Ok(<<config.oscap_ssh_path, hp.val[1], hp.val[2]>>
                                 \o spec_args)
                ELSE hp
          [] scheme = "ssh+sudo" ->
                IF hp.ok THEN Ok(<<config.oscap_ssh_path, A_sudo, hp.val[1],
                                   hp.val[2]>> \o spec_args)
                ELSE hp
          [] scheme = "docker-image" ->
                Ok(<<config.oscap_docker_path, A_image, rest>> \o spec_args)
          [] scheme = "docker-container" ->
                Ok(<<config.oscap_docker_path, A_container, rest>> \o spec_args)
          [] scheme = "vm-domain" ->
                Ok(<<config.oscap_vm_path, A_domain, rest>> \o spec_args)
          [] scheme = "vm-image" ->
                Ok(<<config.oscap_vm_path, A_image, rest>> \o spec_args)
          [] scheme = "chroot" -> Ok(<<config.oscap_chroot_path, rest>> \o spec_args)

Resolved == fn = <<"get_evaluation_args">>

\* C4: for every target that matches a scheme and every config, target
\* resolution fails with ToolNotConfigured exactly when the config path of the
\* binary this scheme uses is empty, and it never returns an argument vector
\* whose program name is the empty string.
C4_ToolNotConfiguredIffBinaryMissing ==
    (Resolved /\ SchemeOf(arg.target) # "unknown") =>
        /\ (~res.ok /\ res.err = "ToolNotConfigured")
              <=> (RequiredBinary(SchemeOf(arg.target), arg.config) = <<>>)
        /\ res.ok => res.val[1] # <<>>

\* C5: with every tool path set, target resolution returns exactly the
\* documented binary and prefix of the matching scheme followed by the
\* spec-contributed arguments (port 22 by default, the explicit port
\* otherwise, "--sudo" before the host for ssh+sudo), fails on a port that is
\* not numeric, and fails with UnknownTarget when no scheme matches.
C5_ResolveAsDocumented ==
    (Resolved /\ arg.config = AllToolsConfig) =>
        /\ res = Documented(arg.target, arg.config, arg.oscap_arguments)
        /\ (arg.target = T_ssh_h_2222) =>
              res = Ok(<<P_ssh, <<"h">>, <<"2", "2", "2", "2">>>>
                       \o arg.oscap_arguments)
        /\ (arg.target = T_ssh_h) =>
              res = Ok(<<P_ssh, <<"h">>, <<"2", "2">>>> \o arg.oscap_arguments)
        /\ (arg.target = T_sudo_h_2222) =>
              res = Ok(<<P_ssh, A_sudo, <<"h">>, <<"2", "2", "2", "2">>>>
                       \o arg.oscap_arguments)
        /\ (arg.target = T_foo_x) => res = Raise("UnknownTarget")

\* An ssh target with an explicit port has been resolved with every tool set.
C5_Witness ==
    /\ Resolved
    /\ arg.config = AllToolsConfig
    /\ arg.target = T_ssh_h_2222
    /\ res.ok
    /\ res.val[3] = <<"2", "2", "2", "2">>

----------------------------------------------------------------------------
(* Claims about EvaluationMode (SpecMode) *)

\* C9: from_string(to_string(mode)) = mode for the four real modes; every
\* string other than the four tokens maps to UNKNOWN; to_string of a value
\* that is no real mode is none of the four tokens, so a chain that passes
\* through UNKNOWN never comes back to a real mode.
C9_ModeRoundTrip ==
    /\ (fn = <<"to_string", "from_string">> /\ arg.i \in RealModes)
          => res = arg
    /\ (fn = <<"from_string">> /\ arg.s \notin ModeTokens)
          => res = IntV(UNKNOWN)
    /\ (fn = <<"to_string">> /\ arg.i \notin RealModes)
          => res.s \notin ModeTokens
    /\ (Len(fn) >= 2 /\ arg.t = "int" /\ arg.i \notin RealModes /\ res.t = "int")
          => res = IntV(UNKNOWN)
    /\ (Len(fn) >= 1 /\ arg.t = "str" /\ arg.s \notin ModeTokens /\ res.t = "int")
          => res = IntV(UNKNOWN)

\* The cve_scan mode has gone through to_string and from_string and is back.
C9_Witness ==
    /\ fn = <<"to_string", "from_string">>
    /\ arg = IntV(CVE_SCAN)
    /\ res = IntV(CVE_SCAN)

----------------------------------------------------------------------------
(* Claims about the exit code classification (SpecStatus) *)

\* The severity that goes with each status.
SeverityOfStatus(status) ==
    CASE status = <<"Compliant">> -> "info"
      [] status = <<"Non-Compliant">> -> "warning"
      [] status = <<"Evaluation Error">> -> "error"
      [] OTHER -> "error"

\* C8: get_status_from_exit_code maps 0 to Compliant, 1 to Evaluation Error,
\* 2 to Non-Compliant and every other code to Unknown with the raw code in
\* the text; the severity evaluate logs for the code agrees with that status
\* (info, error, warning, and error for Unknown).
C8_StatusTable ==
    (res.status # NotClassified /\ res.severity # NotLogged) =>
        /\ (arg = 0) => (res.status = <<"Compliant">> /\ res.severity = "info")
        /\ (arg = 1) =>
              (res.status = <<"Evaluation Error">> /\ res.severity = "error")
        /\ (arg = 2) =>
              (res.status = <<"Non-Compliant">> /\ res.severity = "warning")
        /\ (arg \notin {0, 1, 2}) =>
              /\ Head(res.status) = "Unknown (exit_code = "
              /\ res.status[Len(res.status)] = ")"
              /\ int_of(SubSeq(res.status, 2, Len(res.status) - 1)) = arg
              /\ res.severity = "error"
        /\ res.severity = SeverityOfStatus(res.status)

\* Exit code 2 has been classified and logged.
C8_Witness ==
    /\ arg = 2
    /\ res.status = <<"Non-Compliant">>
    /\ res.severity = "warning"

----------------------------------------------------------------------------
(* Claims about profile discovery (SpecProfiles) *)

Scraped == fn = <<"get_profile_choices_for_input">>

HasSentinel(m) == "" \in DOMAIN m /\ m[""] = "(default)"

\* C6: every profile map returned contains the entry "" -> "(default)"; when
\* the content document cannot be opened or parsed the returned map is
\* exactly that entry.
C6_SentinelAlways ==
    (Scraped /\ res.ok) =>
        /\ HasSentinel(res.val)
        /\ (arg.input_file.kind # "tree") => DOMAIN res.val = {""}

\* C6 as amended: every profile map returned after the content document was
\* opened and parsed contains the entry "" -> "(default)"; when the content
\* document cannot be opened or parsed the returned map is empty, without
\* the sentinel entry.
C6_SentinelWhenParsed ==
    (Scraped /\ res.ok) =>
        IF arg.input_file.kind = "tree"
        THEN HasSentinel(res.val)
        ELSE DOMAIN res.val = {}

\* A parsed content document whose first checklist holds p1 and p2 has been
\* scraped: the map holds both profiles and the sentinel.
C6_Witness ==
    /\ Scraped
    /\ res.ok
    /\ arg.input_file.kind = "tree"
    /\ DOMAIN res.val = {"", "p1", "p2"}
    /\ res.val["p1"] = "Title A"
    /\ res.val[""] = "(default)"

----------------------------------------------------------------------------
(* Claims about evaluate (Spec) *)

Finished(c) == pc[c] = "done" /\ inp[c].op = "evaluate"
Returned(c) == Finished(c) /\ out[c].ok

\* The return code the call observed: that of the process, 1 when the
\* process could not be launched.
ObservedCode(c) == IF proc[c].state = "exited" THEN proc[c].rc ELSE 1

\* The run directory of call c holds an exit_code file, written once, whose
\* decimal text is the observed return code.
RunRecorded(c) ==
    /\ wd[c] \in DirNames
    /\ fs[wd[c]].exists
    /\ fs[wd[c]].exit_code.exists
    /\ fs[wd[c]].exit_code.opens = 1
    /\ int_ok(fs[wd[c]].exit_code.data)
    /\ int_of(fs[wd[c]].exit_code.data) = ObservedCode(c)
    /\ proc[c].state = "failed" => fs[wd[c]].exit_code.data = <<"1">>

\* An exit_code file that exists is left as it is by every step.
ExitCodeKept ==
    \A d \in DirNames :
        fs[d].exit_code.exists => fs'[d].exit_code = fs[d].exit_code

\* C1: every call of evaluate with a valid spec ends with a run directory
\* that contains an exit_code file whose decimal content equals the return
\* code of the spawned process, 1 when the process could not be launched.
C1_ValidSpecRecorded ==
    \A c \in Callers : (Finished(c) /\ inp[c].valid) => RunRecorded(c)

\* C1 as amended: every call of evaluate that returns (a valid spec whose
\* target resolved) ends with a run directory that contains an exit_code
\* file whose decimal content equals the return code of the spawned process,
\* 1 when the process could not be launched; once written, the exit_code
\* file is never rewritten.
C1_ReturnedRecorded ==
    /\ [](\A c \in Callers : Returned(c) => RunRecorded(c))
    /\ [][ExitCodeKept]_vars

\* A call has returned after its process ended with code 2, and its
\* exit_code file reads "2".
C1_Witness ==
    \E c \in Callers :
        /\ Returned(c)
        /\ proc[c] = Exited(2)
        /\ fs[wd[c]].exit_code.data = <<"2">>

\* C2: whenever spec.is_valid() is true, evaluate returns the run directory
\* path, whatever the target, the tool paths and the process outcome are.
C2_ValidSpecReturns ==
    \A c \in Callers : (Finished(c) /\ inp[c].valid) => out[c].ok

\* C2 as amended: evaluate returns the run directory path exactly when
\* spec.is_valid() is true and get_evaluation_args succeeds, whatever the
\* outcome of the spawned process is; an invalid spec raises InvalidSpec and
\* a valid spec with a target that matches no scheme raises UnknownTarget.
C2_ReturnsIffResolved ==
    \A c \in Callers :
        Finished(c) =>
            /\ out[c].ok <=>
                  (inp[c].valid /\ get_evaluation_args(inp[c], inp[c].config).ok)
            /\ out[c].ok => (out[c].val = wd[c] /\ wd[c] \in DirNames
                             /\ fs[wd[c]].exists)
            /\ ~inp[c].valid => out[c] = Raise("InvalidSpec")
            /\ (inp[c].valid /\ SchemeOf(inp[c].target) = "unknown")
                  => out[c] = Raise("UnknownTarget")
            /\ (inp[c].valid /\ inp[c].target = S_localhost
                /\ inp[c].config.oscap_path # <<>>) => out[c].ok

\* A call has returned its directory although the process could not be
\* launched.
C2_Witness ==
    \E c \in Callers :
        /\ Returned(c)
        /\ proc[c] = LaunchFailed
        /\ out[c].val = wd[c]

RunFiles == {"stdout", "stderr", "exit_code"}

FileOf(d, f) ==
    CASE f = "stdout" -> fs[d].stdout
      [] f = "stderr" -> fs[d].stderr
      [] f = "exit_code" -> fs[d].exit_code

\* C3: two evaluate calls, interleaved in any order, have distinct run
\* directories, every directory that exists is the run directory of one
\* call, and every file of a directory was written only by the call whose
\* run directory it is.
C3_DistinctDirectories ==
    /\ \A c1, c2 \in Callers :
          (c1 # c2 /\ wd[c1] # NoDir /\ wd[c2] # NoDir) => wd[c1] # wd[c2]
    /\ \A d \in DirNames :
          fs[d].exists => \E c \in Callers : wd[c] = d
    /\ \A d \in DirNames, f \in RunFiles :
          \A w \in FileOf(d, f).writers : wd[w] = d

\* Two calls with the same valid spec and config have both returned, each
\* with its own directory and its own exit_code file.
C3_Witness ==
    /\ Returned(1) /\ Returned(2)
    /\ inp[1] = inp[2]
    /\ out[1].val # out[2].val
    /\ fs[out[1].val].exit_code.writers = {1}
    /\ fs[out[2].val].exit_code.writers = {2}

\* C10: after an evaluate call has finished, returned or raised, the run
\* directory it created contains an exit_code file; a call that raises
\* leaves no run directory with stdout and stderr but no exit_code.
C10_NoDirectoryWithoutExitCode ==
    \A c \in Callers :
        (Finished(c) /\ wd[c] # NoDir) => fs[wd[c]].exit_code.exists

----------------------------------------------------------------------------
(* Claims about the operations that launch a process (SpecOps) *)

\* The inputs that must make an operation fail before any launch.
InvalidInput(i) ==
    CASE i.op = "evaluate" ->
            \/ ~i.valid
            \/ SchemeOf(i.target) = "unknown"
            \/ RequiredBinary(SchemeOf(i.target), i.config) = <<>>
      [] i.op = "generate_guide" ->
            \/ ~i.valid
            \/ i.mode \notin {SOURCE_DATASTREAM, STANDARD_SCAN}
            \/ i.config.oscap_path = <<>>
      [] i.op = "generate_fix" ->
            \/ ~i.valid
            \/ i.mode \notin {SOURCE_DATASTREAM, STANDARD_SCAN}
            \/ i.fix_type \notin {"bash", "ansible", "puppet"}
            \/ i.config.oscap_path = <<>>
      [] i.op = "generate_report_for_result" ->
            \/ ~i.valid
            \/ i.mode \notin RealModes
            \/ ~i.results_exist
            \/ i.config.oscap_path = <<>>
      [] i.op = "generate_fix_for_result" ->
            \/ ~i.results_exist
            \/ i.fix_type \notin {"bash", "ansible", "puppet"}
            \/ i.config.oscap_path = <<>>
      [] OTHER -> FALSE

\* C7: in every operation that launches a process, an invalid spec, an
\* unsupported or unknown mode, an unknown target, a missing tool path, a
\* missing results file or an unknown fix type makes the operation fail, and
\* no process runs in that call.
C7_FailBeforeLaunch ==
    \A c \in Callers :
        InvalidInput(inp[c]) =>
            /\ proc[c].state # "exited"
            /\ pc[c] = "done" => ~out[c].ok

====
